---- MODULE Spec2Model ----
(***************************************************************************)
(* pyguard: the Guard decorator (core/__guard.py), the findillegals        *)
(* collection scan (core/findillegals.py) and the diagnostics              *)
(* (errors/__init__.py).                                                   *)
(*                                                                         *)
(* Python objects are records [tag, name, items]: tag is the name of the   *)
(* object's class, name distinguishes objects of one class, items holds    *)
(* the elements of a tuple.  A dict is the sequence of its <<key, value>>  *)
(* pairs in insertion order; keys are strings.                             *)
(***************************************************************************)
EXTENDS Integers, Sequences, FiniteSets, TLC

VARIABLES
    ctor_types,     \* *types of the last Guard(...) call
    ctor_kwtypes,   \* **kwtypes of the last Guard(...) call
    ctor_raised,    \* what that constructor call raised (NotCalled before any)
    self,           \* the Guard instance, NoObject while none exists
    wrapped,        \* names of the callables this Guard decorates (live decor closures)
    call,           \* record of the last call of a decorated callable
    fi_collection,  \* findillegals: last collection argument
    fi_valid_type,  \* findillegals: last valid_type argument
    fi_result,      \* findillegals: last return value
    err_args,       \* InvalidArgumentError(...): last positional arguments
    err_obj         \* InvalidArgumentError(...): what the last construction produced

vars == <<ctor_types, ctor_kwtypes, ctor_raised, self, wrapped, call,
          fi_collection, fi_valid_type, fi_result, err_args, err_obj>>

guard_vars == <<ctor_types, ctor_kwtypes, ctor_raised, self, wrapped, call>>
fi_vars == <<fi_collection, fi_valid_type, fi_result>>
err_vars == <<err_args, err_obj>>

----------------------------------------------------------------------------
(* Bounds *)

\* largest number of positional specifiers given to Guard(...)
MaxTypes == 2
\* largest number of elements of a collection given to findillegals
MaxItems == 3

----------------------------------------------------------------------------
(* Python objects *)

Obj(tag, name, items) == [tag |-> tag, name |-> name, items |-> items]

PyType(n) == Obj("type", n, <<>>)
PyTuple(items) == Obj("tuple", "", items)
PyStr(s) == Obj("str", s, <<>>)
PyFunction(n) == Obj("function", n, <<>>)
None == Obj("NoneType", "None", <<>>)
PyTrue == Obj("bool", "True", <<>>)
PyOne == Obj("int", "1", <<>>)

int == PyType("int")
bool == PyType("bool")
str == PyType("str")

\* marker values of the model's variables (not Python objects)
NotCalled == Obj("-", "not called", <<>>)
NoObject == Obj("-", "no object", <<>>)
Unset == Obj("-", "attribute not set", <<>>)

\* type(o).__name__
type_name(o) == o.tag

\* type(o)
type(o) == PyType(o.tag)

\* the method resolution order of the builtin classes used here
mro(n) ==
    IF n = "bool" THEN <<"bool", "int", "object">> ELSE <<n, "object">>

\* isinstance(o, cls) for a class or a tuple of classes
isinstance(o, cls) ==
    IF cls.tag = "tuple"
    THEN \E i \in 1..Len(cls.items) :
             \E j \in 1..Len(mro(o.tag)) : mro(o.tag)[j] = cls.items[i].name
    ELSE \E j \in 1..Len(mro(o.tag)) : mro(o.tag)[j] = cls.name

\* x in t, for a tuple t
contains(t, x) == \E i \in 1..Len(t.items) : t.items[i] = x

----------------------------------------------------------------------------
(* dicts: sequences of <<key, value>> in insertion order *)

RECURSIVE zip(_, _)
zip(ks, vs) ==
    IF ks = <<>> \/ vs = <<>> THEN <<>>
    ELSE <<<<Head(ks), Head(vs)>>>> \o zip(Tail(ks), Tail(vs))

keys(d) == {d[i][1] : i \in 1..Len(d)}
values(d) == [i \in 1..Len(d) |-> d[i][2]]
get(d, k) == d[CHOOSE i \in 1..Len(d) : d[i][1] = k][2]
put(d, k, v) == [i \in 1..Len(d) |-> IF d[i][1] = k THEN <<k, v>> ELSE d[i]]

----------------------------------------------------------------------------
(* The callables that get decorated, and getfullargspec(func).args *)

Funcs == {"one", "foo"}

getfullargspec_args(func) ==
    IF func = "one" THEN <<"a">> ELSE <<"a", "b", "c">>

----------------------------------------------------------------------------
(* errors/__init__.py *)

\* f"{x}" for the objects that reach a diagnostic, as a sequence of text pieces
RECURSIVE format_items(_)
format(o) ==
    CASE o.tag = "type" -> <<"<class '", o.name, "'>">>
      [] o.tag = "function" -> <<"<function ", o.name, ">">>
      [] o.tag = "tuple" -> <<"(">> \o format_items(o.items) \o <<")">>
      [] OTHER -> <<o.name>>
format_items(items) ==
    IF items = <<>> THEN <<>>
    ELSE format(Head(items)) \o <<", ">> \o format_items(Tail(items))

\* InvalidArgumentError.__init__(self, parameter, enforcedarg, givenarg)
InvalidArgumentError_init(parameter, enforcedarg, givenarg) ==
    [cls |-> "InvalidArgumentError",
     error |-> format(givenarg) \o <<" was enforced on parameter '">>
               \o format(parameter) \o <<"' but found ">> \o format(givenarg)]

\* the expression InvalidArgumentError(*args): Python binds args to the three
\* parameters of __init__ and raises TypeError itself when the count differs
InvalidArgumentError(args) ==
    IF Len(args) = Len(<<"parameter", "enforcedarg", "givenarg">>)
    THEN InvalidArgumentError_init(args[1], args[2], args[3])
    ELSE [cls |-> "TypeError",
          error |-> <<"InvalidArgumentError.__init__() takes 4 positional arguments but 5 were given">>]

NoException == [cls |-> "", error |-> <<>>]

\* ArgumentIncongruityWarning.__init__(self, funcname, typecount, argcount);
\* the code constructs it only when typecount /= argcount
ArgumentIncongruityWarning(funcname, typecount, argcount) ==
    [cls |-> "ArgumentIncongruityWarning",
     text |-> IF typecount > argcount THEN "Enforcing {typecount} types while only {argcount} arguments exist."
              ELSE "Enforcing only {typecount} types while {argcount} arguments exist. Defined method, {funcname}(), may produce unexpected results.",
     typecount |-> typecount,
     argcount |-> argcount,
     funcname |-> IF typecount > argcount THEN <<>> ELSE format(funcname)]

NoWarning ==
    [cls |-> "", text |-> "", typecount |-> 0, argcount |-> 0, funcname |-> <<>>]

----------------------------------------------------------------------------
(* core/__guard.py *)

\* allinstance(collection, cls) of pyguard.core.allinstance: whether every
\* element of the collection is an instance of cls
allinstance(collection, cls) ==
    \A i \in 1..Len(collection.items) : isinstance(collection.items[i], cls)

\* a slip: the empty tuple is not refused
validate_constructor_drops_empty_check(types, kwtypes) ==
    LET all_types == types \o values(kwtypes)
        rejects(enforced_type) ==
            IF ~isinstance(enforced_type, PyTuple(<<PyType("type"), PyType("tuple")>>))
            THEN TRUE
            ELSE /\ isinstance(enforced_type, PyType("tuple"))
                 /\ ~allinstance(enforced_type, PyType("type"))
    IN  IF \E i \in 1..Len(all_types) : rejects(all_types[i])
        THEN [cls |-> "ValueError", error |-> <<"guard constructor not properly called!">>]
        ELSE NoException

\* Guard.__validate_constructor: the exception it raises, NoException if none
validate_constructor(types, kwtypes) ==
    LET all_types == types \o values(kwtypes)
        rejects(enforced_type) ==
            IF ~isinstance(enforced_type, PyTuple(<<PyType("type"), PyType("tuple")>>))
            THEN TRUE
            ELSE /\ isinstance(enforced_type, PyType("tuple"))
                 /\ (~allinstance(enforced_type, PyType("type"))
                       \/ Len(enforced_type.items) = 0)
    IN  IF \E i \in 1..Len(all_types) : rejects(all_types[i])
        THEN [cls |-> "ValueError", error |-> <<"guard constructor not properly called!">>]
        ELSE NoException

\* the instance Guard.__init__ leaves behind when it returns normally
Guard_init(types, kwtypes) ==
    [types |-> types, kwtypes |-> kwtypes, func |-> Unset]

\* Guard.__scanargs: the loop over scanned_args.keys() from position i on
RECURSIVE scanargs_loop(_, _, _, _)
scanargs_loop(this, scanned_args, i, idx) ==
    IF i > Len(scanned_args) THEN scanned_args
    ELSE IF idx > Len(this.types) - 1 THEN scanned_args
    ELSE IF scanned_args[i][2] = None
         THEN scanargs_loop(this,
                            put(scanned_args, scanned_args[i][1], this.types[idx + 1]),
                            i + 1, idx + 1)
         ELSE scanargs_loop(this, scanned_args, i + 1, idx)

\* a slip: idx advances for every key, name-targeted ones included
RECURSIVE scanargs_loop_counts_kw(_, _, _, _)
scanargs_loop_counts_kw(this, scanned_args, i, idx) ==
    IF i > Len(scanned_args) THEN scanned_args
    ELSE IF idx > Len(this.types) - 1 THEN scanned_args
    ELSE IF scanned_args[i][2] = None
         THEN scanargs_loop_counts_kw(this,
                            put(scanned_args, scanned_args[i][1], this.types[idx + 1]),
                            i + 1, idx + 1)
         ELSE scanargs_loop_counts_kw(this, scanned_args, i + 1, idx + 1)

scanargs_counts_kw(this, passed_args) ==
    LET specified_kw == keys(passed_args) \cap keys(this.kwtypes)
        scanned_args == [i \in 1..Len(passed_args) |->
                            IF passed_args[i][1] \in specified_kw
                            THEN <<passed_args[i][1], get(this.kwtypes, passed_args[i][1])>>
                            ELSE <<passed_args[i][1], None>>]
    IN  scanargs_loop_counts_kw(this, scanned_args, 1, 0)

\* Guard.__scanargs
scanargs(this, passed_args) ==
    LET specified_kw == keys(passed_args) \cap keys(this.kwtypes)
        scanned_args == [i \in 1..Len(passed_args) |->
                            IF passed_args[i][1] \in specified_kw
                            THEN <<passed_args[i][1], get(this.kwtypes, passed_args[i][1])>>
                            ELSE <<passed_args[i][1], None>>]
    IN  scanargs_loop(this, scanned_args, 1, 0)

\* a slip: the bool special case left out
validate_param_without_bool_case(this, param, enforced_type, value) ==
    LET raised == InvalidArgumentError(
                      <<this.func, PyStr(param), enforced_type, PyStr(type_name(value))>>)
    IN  IF enforced_type = None THEN NoException
        ELSE IF ~isinstance(value, enforced_type) THEN raised
        ELSE NoException

\* Guard.__validate, one iteration: the exception raised for param, NoException if none
validate_param(this, param, enforced_type, value) ==
    LET raised == InvalidArgumentError(
                      <<this.func, PyStr(param), enforced_type, PyStr(type_name(value))>>)
    IN  IF enforced_type = None THEN NoException
        ELSE IF /\ isinstance(value, bool)
                /\ IF isinstance(enforced_type, PyType("tuple"))
                   THEN ~contains(enforced_type, bool)
                   ELSE enforced_type /= bool
             THEN raised
        ELSE IF ~isinstance(value, enforced_type) THEN raised
        ELSE NoException

\* Guard.__validate: the loop over scanned_args.items() from position i on;
\* the first exception raised, NoException if the loop runs to its end
RECURSIVE validate_loop(_, _, _, _)
validate_loop(this, scanned_args, passed_args, i) ==
    IF i > Len(scanned_args) THEN NoException
    ELSE LET param == scanned_args[i][1]
             raised == validate_param(this, param, scanned_args[i][2],
                                      get(passed_args, param))
         IN  IF raised /= NoException THEN raised
             ELSE validate_loop(this, scanned_args, passed_args, i + 1)

\* a slip: the last captured parameter is not checked
validate_skips_last(this, scanned_args, passed_args) ==
    validate_loop(this, SubSeq(scanned_args, 1, Len(scanned_args) - 1), passed_args, 1)

\* Guard.__validate: the exception it raises, NoException if none
validate(this, scanned_args, passed_args) ==
    validate_loop(this, scanned_args, passed_args, 1)

\* decor, from the scan on: passed_args is what line 25 captured
decor_body(this, func, passed_args, args, kwargs) ==
    LET func_params == getfullargspec_args(func)
        scanned_args == scanargs(this, passed_args)
        raised == validate(this, scanned_args, passed_args)
        type_count == Len(this.types) + Len(this.kwtypes)
    IN  [func |-> func, args |-> args, kwargs |-> kwargs,
         scanned_args |-> scanned_args,
         raised |-> raised,
         warning |-> IF raised = NoException /\ type_count /= Len(func_params)
                     THEN ArgumentIncongruityWarning(PyFunction(func), type_count,
                                                     Len(func_params))
                     ELSE NoWarning,
         invoked |-> (raised = NoException),
         returned |-> IF raised = NoException
                      THEN <<"result of", func, args, kwargs>>
                      ELSE <<>>]

\* a slip: the keyword arguments are captured as well
decor_captures_kwargs(this, func, args, kwargs) ==
    decor_body(this, func, zip(getfullargspec_args(func), args) \o kwargs, args, kwargs)

\* a slip: the incongruity is raised instead of warned about
decor_raises_incongruity(this, func, args, kwargs) ==
    LET r == decor_body(this, func, zip(getfullargspec_args(func), args), args, kwargs)
    IN  IF r.warning = NoWarning THEN r
        ELSE [r EXCEPT !.invoked = FALSE, !.returned = <<>>]

\* Guard.__call__.decor(*args, **kwargs) of the closure made for func
decor(this, func, args, kwargs) ==
    decor_body(this, func, zip(getfullargspec_args(func), args), args, kwargs)

NoCall ==
    [func |-> "", args |-> <<>>, kwargs |-> <<>>, scanned_args |-> <<>>,
     raised |-> NoException, warning |-> NoWarning, invoked |-> FALSE,
     returned |-> <<>>]

----------------------------------------------------------------------------
(* core/findillegals.py; a list is Obj("list", "", items), a dict is             *)
(* Obj("dict", "", pairs) with pairs a dict as above, keyed by the key's text     *)

\* dict.values(), as the sequence the for loop walks
dict_values(collection) == values(collection.items)

\* dict.keys(), as objects
dict_keys(collection) ==
    [i \in 1..Len(collection.items) |-> PyStr(collection.items[i][1])]

\* the for loop of findillegals over the items still to visit
RECURSIVE findillegals_loop(_, _)
findillegals_loop(items, valid_type) ==
    IF items = <<>> THEN None
    ELSE LET item == Head(items)
         IN  IF isinstance(item, bool)
             THEN IF isinstance(valid_type, PyType("tuple"))
                  THEN IF ~contains(valid_type, bool) THEN type(item)
                       ELSE findillegals_loop(Tail(items), valid_type)
                  ELSE IF valid_type /= bool THEN type(item)
                       ELSE findillegals_loop(Tail(items), valid_type)
             ELSE IF ~isinstance(item, valid_type) THEN type(item)
                  ELSE findillegals_loop(Tail(items), valid_type)

\* a slip: iterating a dict itself walks its keys
findillegals_scans_keys(collection, valid_type) ==
    findillegals_loop(IF isinstance(collection, PyType("dict"))
                      THEN dict_keys(collection)
                      ELSE collection.items,
                      valid_type)

\* findillegals(collection, valid_type): the returned type, or None
findillegals(collection, valid_type) ==
    findillegals_loop(IF isinstance(collection, PyType("dict"))
                      THEN dict_values(collection)
                      ELSE collection.items,
                      valid_type)

----------------------------------------------------------------------------
(* Inputs *)

\* the values passed to decorated callables and held by scanned collections
Values == {PyOne, PyTrue, PyStr("x")}

\* what is given to Guard(...) as a specifier: types, tuples of types, and the
\* shapes the constructor is documented to refuse
ValidSpecifiers ==
    {int, bool, str, PyTuple(<<int, bool>>), PyTuple(<<int, str>>)}
SpecifierInputs ==
    ValidSpecifiers \cup {PyTuple(<<>>), PyTuple(<<int, PyStr("foo")>>), PyStr("foo")}

TypesInputs ==
    UNION {[1..n -> SpecifierInputs] : n \in 0..MaxTypes}

\* **kwtypes: no name-targeted specifier, one for a or for b (any input), or
\* one for each of a and b (int or str)
KwtypesInputs ==
    {<<>>}
    \cup {<<<<k, s>>>> : k \in {"a", "b"}, s \in SpecifierInputs}
    \cup {<<<<"a", s>>, <<"b", t>>>> : s \in {int, str}, t \in {int, str}}

----------------------------------------------------------------------------
(* The Guard state machine *)

Init ==
    /\ ctor_types = <<>>
    /\ ctor_kwtypes = <<>>
    /\ ctor_raised = NotCalled
    /\ self = NoObject
    /\ wrapped = {}
    /\ call = NoCall
    /\ fi_collection = None
    /\ fi_valid_type = None
    /\ fi_result = NotCalled
    /\ err_args = <<>>
    /\ err_obj = NoException

\* g = Guard(*types, **kwtypes); a behaviour follows one Guard
Construct ==
    /\ ctor_raised = NotCalled
    /\ \E types \in TypesInputs, kwtypes \in KwtypesInputs :
        LET raised == validate_constructor(types, kwtypes)
        IN  /\ ctor_types' = types
            /\ ctor_kwtypes' = kwtypes
            /\ ctor_raised' = raised
            /\ self' = IF raised = NoException THEN Guard_init(types, kwtypes)
                       ELSE NoObject
            /\ wrapped' = {}
            /\ call' = NoCall
            /\ UNCHANGED <<fi_vars, err_vars>>

\* g(func): Guard.__call__ stores func on the instance and returns decor
Wrap ==
    /\ self /= NoObject
    /\ call = NoCall
    /\ \E func \in Funcs :
        /\ self' = [self EXCEPT !.func = PyFunction(func)]
        /\ wrapped' = wrapped \cup {func}
        /\ UNCHANGED <<ctor_types, ctor_kwtypes, ctor_raised, call, fi_vars, err_vars>>

\* a call of a decorated callable that binds every parameter once: the first
\* npos parameters positionally, the others by keyword
Call ==
    /\ call = NoCall
    /\ \E func \in wrapped :
        LET func_params == getfullargspec_args(func)
        IN  \E npos \in 0..Len(func_params), vals \in [1..Len(func_params) -> Values] :
                LET args == SubSeq(vals, 1, npos)
                    kwargs == [i \in 1..(Len(func_params) - npos) |->
                                  <<func_params[npos + i], vals[npos + i]>>]
                IN  /\ call' = decor(self, func, args, kwargs)
                    /\ UNCHANGED <<ctor_types, ctor_kwtypes, ctor_raised, self, wrapped,
                                   fi_vars, err_vars>>

\* the caller has the call's result or exception; the next call may start
Return ==
    /\ call /= NoCall
    /\ call' = NoCall
    /\ UNCHANGED <<ctor_types, ctor_kwtypes, ctor_raised, self, wrapped,
                   fi_vars, err_vars>>

Next == Construct \/ Wrap \/ Call \/ Return

Spec == Init /\ [][Next]_vars

----------------------------------------------------------------------------
(* findillegals applied to bounded collections *)

ItemsInputs == UNION {[1..n -> Values] : n \in 0..MaxItems}

\* the i-th key of the scanned dicts
dict_key(i) == ToString(i)

ScanList ==
    \E items \in ItemsInputs, valid_type \in ValidSpecifiers :
        /\ fi_collection' = Obj("list", "", items)
        /\ fi_valid_type' = valid_type
        /\ fi_result' = findillegals(fi_collection', valid_type)
        /\ UNCHANGED <<guard_vars, err_vars>>

ScanDict ==
    \E items \in ItemsInputs, valid_type \in ValidSpecifiers :
        /\ fi_collection' = Obj("dict", "", [i \in 1..Len(items) |-> <<dict_key(i), items[i]>>])
        /\ fi_valid_type' = valid_type
        /\ fi_result' = findillegals(fi_collection', valid_type)
        /\ UNCHANGED <<guard_vars, err_vars>>

NextScan == ScanList \/ ScanDict

SpecScan == Init /\ [][NextScan]_vars

----------------------------------------------------------------------------
(* InvalidArgumentError constructed from bounded arguments *)

ErrorFields ==
    {<<PyStr(p), e, PyStr(g)>> : p \in {"a", "b", "c"}, e \in ValidSpecifiers,
                                 g \in {type_name(v) : v \in Values}}

\* InvalidArgumentError(parameter, enforcedarg, givenarg), the signature of __init__
BuildError ==
    \E args \in ErrorFields :
        /\ err_args' = args
        /\ err_obj' = InvalidArgumentError(args)
        /\ UNCHANGED <<guard_vars, fi_vars>>

\* InvalidArgumentError(func, parameter, enforcedarg, givenarg), as Guard.__validate
\* calls it
BuildErrorWithFunc ==
    \E func \in Funcs, args \in ErrorFields :
        /\ err_args' = <<PyFunction(func)>> \o args
        /\ err_obj' = InvalidArgumentError(err_args')
        /\ UNCHANGED <<guard_vars, fi_vars>>

NextErr == BuildError \/ BuildErrorWithFunc

SpecErr == Init /\ [][NextErr]_vars

----------------------------------------------------------------------------
(* The vocabulary of the properties, stated from the documentation *)

\* a specifier as the documentation admits it: a type, or a non-empty tuple
\* whose every element is a type
WellFormed(specifier) ==
    \/ specifier.tag = "type"
    \/ /\ specifier.tag = "tuple"
       /\ Len(specifier.items) > 0
       /\ \A i \in 1..Len(specifier.items) : specifier.items[i].tag = "type"

\* value is an instance of the class t (bool is a subclass of int)
InstanceOf(value, t) ==
    \/ value.tag = t.name
    \/ value.tag = "bool" /\ t.name = "int"
    \/ t.name = "object"

\* conformance with the boolean exception
Conforms(value, specifier) ==
    IF value.tag = "bool"
    THEN \/ specifier = bool
         \/ specifier.tag = "tuple" /\ \E i \in 1..Len(specifier.items) : specifier.items[i] = bool
    ELSE IF specifier.tag = "tuple"
         THEN \E i \in 1..Len(specifier.items) : InstanceOf(value, specifier.items[i])
         ELSE InstanceOf(value, specifier)

\* the parameter names a call captures: those bound positionally
CapturedNames(c) ==
    SubSeq(getfullargspec_args(c.func), 1, Len(c.args))

\* the specifier resolution gives the i-th captured name
Resolved(c, i) ==
    LET names == CapturedNames(c)
        targeted(k) == k \in keys(self.kwtypes)
        rank == Cardinality({j \in 1..i : ~targeted(names[j])})
    IN  IF targeted(names[i]) THEN get(self.kwtypes, names[i])
        ELSE IF rank <= Len(self.types) THEN self.types[rank]
        ELSE None

\* the positions of the captured arguments that do not conform
Offending(c) ==
    {i \in 1..Len(c.args) : Resolved(c, i) /= None /\ ~Conforms(c.args[i], Resolved(c, i))}

DeclaredCount == Len(self.types) + Len(self.kwtypes)

Returned(c) == c.invoked /\ c.returned = <<"result of", c.func, c.args, c.kwargs>>

----------------------------------------------------------------------------
(* Properties *)

\* C1: a call with a nonconforming captured argument fails with an
\* InvalidArgumentError that identifies the earliest offending parameter, its
\* expected specifier and the actual value's runtime type.
C1_MismatchRaisesArgumentTypeMismatch ==
    (call /= NoCall /\ Offending(call) /= {}) =>
        LET i == CHOOSE i \in Offending(call) : \A j \in Offending(call) : i <= j
        IN  /\ call.raised.cls = "InvalidArgumentError"
            /\ call.raised.error =
                   format(Resolved(call, i)) \o <<" was enforced on parameter '">>
                   \o <<CapturedNames(call)[i]>> \o <<"' but found ">>
                   \o <<type_name(call.args[i])>>

\* C2: when some captured argument fails its conformance check the call raises
\* and the original callable is not invoked.
C2_NoDelegationOnMismatch ==
    (call /= NoCall /\ Offending(call) /= {}) =>
        /\ call.raised /= NoException
        /\ ~call.invoked
        /\ call.returned = <<>>

C2_Witness ==
    /\ call /= NoCall
    /\ call.func = "foo"
    /\ Offending(call) = {Len(call.args)}
    /\ Len(call.args) = Len(getfullargspec_args("foo"))
    /\ ~call.invoked

\* C3: every captured name that is a key of the name-targeted mapping gets that
\* mapping's specifier; the other captured names, in declaration order, get the
\* positional specifiers in sequence order until those run out, and stay
\* unconstrained after that.
C3_SpecifierResolution ==
    call /= NoCall =>
        /\ Len(call.scanned_args) = Len(call.args)
        /\ \A i \in 1..Len(call.args) :
               call.scanned_args[i] = <<CapturedNames(call)[i], Resolved(call, i)>>

C3_Witness ==
    /\ call /= NoCall
    /\ self.types = <<int, int>>
    /\ self.kwtypes = <<<<"a", str>>>>
    /\ call.func = "foo"
    /\ call.args = <<PyStr("x"), PyOne, PyOne>>
    /\ call.scanned_args = <<<<"a", str>>, <<"b", int>>, <<"c", int>>>>
    /\ call.invoked

\* C4: a captured value passes the check exactly when it conforms: a non-boolean
\* when it is an instance of the specifier or of a type of the alternative-set,
\* a boolean only when bool is the specifier or a member of the alternative-set.
C4_ConformanceWithBooleanException ==
    call /= NoCall =>
        (call.raised = NoException <=>
            \A i \in 1..Len(call.scanned_args) :
                \/ call.scanned_args[i][2] = None
                \/ Conforms(call.args[i], call.scanned_args[i][2]))

C4_Witness ==
    /\ call /= NoCall
    /\ call.func = "one"
    /\ call.args = <<PyTrue>>
    /\ call.scanned_args = <<<<"a", PyTuple(<<int, str>>)>>>>
    /\ call.raised /= NoException

\* C5: Guard(...) succeeds exactly when every declared specifier is a type or a
\* non-empty tuple of types; otherwise it raises ValueError and leaves no
\* instance, so a call only ever runs against well-formed specifiers.
C5_ConstructionIffWellFormed ==
    LET declared == ctor_types \o values(ctor_kwtypes)
        all_well_formed == \A i \in 1..Len(declared) : WellFormed(declared[i])
    IN  /\ ctor_raised /= NotCalled =>
            /\ ctor_raised = NoException <=> all_well_formed
            /\ ctor_raised /= NoException <=> ctor_raised.cls = "ValueError"
            /\ self /= NoObject <=> all_well_formed
        /\ (call /= NoCall \/ wrapped /= {}) => (self /= NoObject /\ all_well_formed)

C5_Witness ==
    /\ ctor_types = <<int, PyTuple(<<>>)>>
    /\ ctor_kwtypes = <<<<"a", str>>>>
    /\ ctor_raised.cls = "ValueError"
    /\ self = NoObject

\* C6: a call whose captured arguments all conform invokes the callable and
\* returns its result whether or not the declared-specifier count equals the
\* parameter count, and warns of the incongruity exactly when they differ.
C6_ArityNeverBlocks ==
    (call /= NoCall /\ Offending(call) = {}) =>
        /\ Returned(call)
        /\ call.raised = NoException
        /\ call.warning /= NoWarning <=>
               DeclaredCount /= Len(getfullargspec_args(call.func))
        /\ call.warning /= NoWarning =>
               /\ call.warning.cls = "ArgumentIncongruityWarning"
               /\ call.warning.typecount = DeclaredCount
               /\ call.warning.argcount = Len(getfullargspec_args(call.func))

C6_Witness ==
    /\ call /= NoCall
    /\ call.func = "one"
    /\ DeclaredCount > Len(getfullargspec_args("one")) + 1
    /\ call.warning.cls = "ArgumentIncongruityWarning"
    /\ Returned(call)

\* C7: findillegals returns the runtime type of the first element, or of the
\* first value of a dict, that does not conform, and None when all conform.
C7_FindIllegals ==
    fi_result /= NotCalled =>
        LET scanned == IF fi_collection.tag = "dict"
                       THEN [i \in 1..Len(fi_collection.items) |-> fi_collection.items[i][2]]
                       ELSE fi_collection.items
            failing == {i \in 1..Len(scanned) : ~Conforms(scanned[i], fi_valid_type)}
        IN  IF failing = {} THEN fi_result = None
            ELSE \E i \in failing :
                     /\ \A j \in failing : i <= j
                     /\ fi_result = PyType(scanned[i].tag)

C7_Witness ==
    /\ fi_collection = Obj("dict", "", <<<<dict_key(1), PyOne>>, <<dict_key(2), PyStr("x")>>>>)
    /\ fi_valid_type = int
    /\ fi_result = str

\* C8: after any wraps and calls the Guard's stored state is what construction
\* left.
C8_GuardStateAsConstructed ==
    self /= NoObject => self = Guard_init(ctor_types, ctor_kwtypes)

\* C9: an InvalidArgumentError built from a parameter name, an expected
\* specifier and an actual type renders as "<expected> was enforced on
\* parameter '<param>' but found <actual>".
C9_RenderedMessage ==
    err_obj.cls = "InvalidArgumentError" =>
        err_obj.error = format(err_args[2]) \o <<" was enforced on parameter '">>
                        \o format(err_args[1]) \o <<"' but found ">>
                        \o format(err_args[3])

\* C10: arguments supplied by keyword are not captured and not checked: a call
\* whose positionally supplied arguments all conform raises nothing and is
\* delegated, whatever its keyword arguments are.
C10_KeywordArgumentsUnchecked ==
    call /= NoCall =>
        /\ keys(call.scanned_args) \cap keys(call.kwargs) = {}
        /\ Offending(call) = {} => (call.raised = NoException /\ call.invoked)

C10_Witness ==
    /\ call /= NoCall
    /\ call.func = "foo"
    /\ self.kwtypes = <<<<"b", int>>>>
    /\ self.types = <<int, int>>
    /\ call.args = <<PyOne>>
    /\ call.kwargs = <<<<"b", PyStr("x")>>, <<"c", PyStr("x")>>>>
    /\ call.raised = NoException
    /\ call.invoked

====
